---- MODULE Spec2Model ----
(***************************************************************************)
(* State-machine model of concrete.ml.sklearn.xgb.XGBClassifier: the       *)
(* constructor, fit, predict and predict_proba of one estimator instance.  *)
(*                                                                         *)
(* Arrays are numpy-like records [shape, data] (row-major data).  Real     *)
(* numbers are fixed-point: probabilities are in thousandths (One = 1.0).  *)
(* Python exceptions are named by the error taxonomy of the design:        *)
(*   assert_true in __init__            -> "ConfigurationError"            *)
(*   assert_true on args/kwargs/fhe     -> "UnsupportedOperationError"     *)
(*   use of an attribute no fit bound   -> "InvalidStateError"             *)
(*   assert_true(y_preds.ndim > 1)      -> "AssertionError"                *)
(*   a raise inside the wrapped fit     -> "NativeFitError"                *)
(*   a raise inside tree_to_numpy       -> "TensorizerError"               *)
(*   a column index out of range        -> "IndexError"                    *)
(***************************************************************************)
EXTENDS Integers, Sequences, FiniteSets, TLC

\* ------------------------------------------------------------- bounds
MaxSamples == 2
MaxFeatures == 2
MaxTrees == 2

\* n_bits: int = 7, the constructor's default
DefaultNBits == 7

\* 1.0 in thousandths (the literal of lines 230 and 231)
One == 1000

VARIABLES
    constructed,          \* TRUE once __init__ has returned an instance
    base_score,           \* self.base_score ("unset" before construction)
    n_bits,               \* self.n_bits
    q_x_byfeatures,       \* self.q_x_byfeatures : [bound, list]
    tensor_tree_predict,  \* self._tensor_tree_predict : [bound, trees, n_features]
    q_y,                  \* self.q_y : QuantizedArray
    lastOp,               \* the last call made on the class or instance
    lastCall,             \* its arguments other than X; for fit, what it found
    lastX,                \* its X (EmptyArray when the call was rejected up front)
    lastOutcome,          \* "ok" or the error it raised
    lastResult,           \* the array it returned (EmptyArray on error)
    lastTrace,            \* the collaborators the last fit called, in order
    memo,                 \* an earlier predict_proba call kept for comparison
    pc, tX, tqX, ty, tOut \* the threads running predict_proba line by line

vars == <<constructed, base_score, n_bits, q_x_byfeatures,
          tensor_tree_predict, q_y, lastOp, lastCall, lastX, lastOutcome,
          lastResult, lastTrace, memo, pc, tX, tqX, ty, tOut>>

obsVars == <<lastOp, lastCall, lastX, lastOutcome, lastResult, lastTrace>>
threadVars == <<pc, tX, tqX, ty, tOut>>

\* ------------------------------------------------------------- arrays
NDArray(shape, data) == [shape |-> shape, data |-> data]
EmptyArray == NDArray(<<0>>, <<>>)

NRows(A) == A.shape[1]
NCols(A) == A.shape[2]
At2(A, i, j) == A.data[(i - 1) * NCols(A) + j]

\* X[:, j]
Column(A, j) == NDArray(<<NRows(A)>>, [i \in 1..NRows(A) |-> At2(A, i, j)])

MapArray(A, F(_)) == NDArray(A.shape, [k \in 1..Len(A.data) |-> F(A.data[k])])

RECURSIVE SeqMin(_)
SeqMin(s) == IF Len(s) = 1 THEN s[1]
             ELSE LET m == SeqMin(Tail(s)) IN IF s[1] < m THEN s[1] ELSE m
RECURSIVE SeqMax(_)
SeqMax(s) == IF Len(s) = 1 THEN s[1]
             ELSE LET m == SeqMax(Tail(s)) IN IF s[1] > m THEN s[1] ELSE m
RECURSIVE SeqSum(_)
SeqSum(s) == IF s = <<>> THEN 0 ELSE Head(s) + SeqSum(Tail(s))

RECURSIVE DropOnes(_)
DropOnes(shape) ==
    IF shape = <<>> THEN <<>>
    ELSE IF Head(shape) = 1 THEN DropOnes(Tail(shape))
    ELSE <<Head(shape)>> \o DropOnes(Tail(shape))

\* numpy.squeeze: every axis of length 1 is removed, the data is kept
squeeze(A) == NDArray(DropOnes(A.shape), A.data)

ndim(A) == Len(A.shape)

\* numpy.transpose of a 2-D array
transpose(A) ==
    LET r == NRows(A)
        c == NCols(A)
    IN NDArray(<<c, r>>, [k \in 1..(r * c) |->
                            At2(A, ((k - 1) % r) + 1, ((k - 1) \div r) + 1)])

\* numpy.sum(A, axis=1, keepdims=True) of a 2-D array
sum_axis1(A) ==
    NDArray(<<NRows(A), 1>>,
            [i \in 1..NRows(A) |-> SeqSum([j \in 1..NCols(A) |-> At2(A, i, j)])])

\* numpy.concatenate((A, B), axis=1) of two column arrays of equal height
concatenate_axis1(A, B) ==
    NDArray(<<NRows(A), NCols(A) + NCols(B)>>,
            [k \in 1..(NRows(A) * (NCols(A) + NCols(B))) |->
                LET i == ((k - 1) \div (NCols(A) + NCols(B))) + 1
                    j == ((k - 1) % (NCols(A) + NCols(B))) + 1
                IN IF j <= NCols(A) THEN At2(A, i, j) ELSE At2(B, i, j - NCols(A))])

\* numpy.argmax(A, axis=1) of an (n, 2) array: the first index of the maximum
argmax_axis1(A) ==
    NDArray(<<NRows(A)>>,
            [i \in 1..NRows(A) |-> IF At2(A, i, 2) > At2(A, i, 1) THEN 1 ELSE 0])

\* 1.0 / (1.0 + exp(-m)) in thousandths, for an integer margin m
SigmoidPos(m) ==
    CASE m = 0 -> 500
      [] m = 1 -> 731
      [] m = 2 -> 881
      [] m = 3 -> 953
      [] m = 4 -> 982
      [] m = 5 -> 993
      [] m = 6 -> 998
      [] OTHER -> 999
sigmoid(m) == IF m >= 0 THEN SigmoidPos(m) ELSE One - SigmoidPos(0 - m)

\* ------------------------------------------------- QuantizedArray
Levels(nb) == 2 ^ nb - 1
CeilDiv(a, b) == (a + b - 1) \div b
Clip(v, lo, hi) == IF v < lo THEN lo ELSE IF v > hi THEN hi ELSE v

UnboundQ == [bound |-> FALSE, n_bits |-> 0, scale |-> 0, zero_point |-> 0,
             qvalues |-> EmptyArray, values |-> EmptyArray]

QuantCode(q, v) == Clip((v - q.zero_point) \div q.scale, 0, Levels(q.n_bits))
DequantCode(q, c) == c * q.scale + q.zero_point

\* QuantizedArray(n_bits, values): scale and zero-point fitted on the values
QuantizedArray(nb, values) ==
    LET mn == SeqMin(values.data)
        mx == SeqMax(values.data)
        q0 == [bound |-> TRUE, n_bits |-> nb,
               scale |-> IF mx = mn THEN 1 ELSE CeilDiv(mx - mn, Levels(nb)),
               zero_point |-> mn,
               qvalues |-> EmptyArray, values |-> values]
    IN [q0 EXCEPT !.qvalues = MapArray(values, LAMBDA v : QuantCode(q0, v))]

\* QuantizedArray.update_values: new values through the fitted scale
update_values(q, values) == MapArray(values, LAMBDA v : QuantCode(q, v))

\* QuantizedArray.dequant: the stored codes through the fitted scale
dequant(q) == MapArray(q.qvalues, LAMBDA c : DequantCode(q, c))

\* first half of update_quantized_values: self.qvalues = qvalues
store_qvalues(q, qvalues) == [q EXCEPT !.qvalues = qvalues]
\* second half: self.values = self.dequant()
store_values(q) == [q EXCEPT !.values = dequant(q)]
\* QuantizedArray.update_quantized_values(qvalues) run without interruption
update_quantized_values(q, qvalues) == store_values(store_qvalues(q, qvalues))

\* ------------------------------------------------------------- inputs
SampleCounts == 1..MaxSamples
FeatureCounts == 1..MaxFeatures
BaseScores == {"None", "0.5", "0.7"}
Threads == {1, 2}

\* an (n, d) batch of feature values: feature j of sample i is j when i + k is
\* odd and 0 otherwise, so k selects which samples are the large ones
Patterns == {0, 1}
Batch(n, d, k) ==
    NDArray(<<n, d>>, [c \in 1..(n * d) |->
        LET i == ((c - 1) \div d) + 1
            j == ((c - 1) % d) + 1
        IN ((i + k) % 2) * j])
Batches == {Batch(n, d, k) : n \in SampleCounts, d \in FeatureCounts, k \in Patterns}
\* the batches fit is called with: MaxSamples samples of d features
TrainBatches == {Batch(MaxSamples, d, 0) : d \in FeatureCounts}

\* What the wrapped library's fit does is not modelled: it raises, or it trains
\* an ensemble of T depth-1 trees on d features; tree t splits on feature
\* ((t-1) mod d)+1 at code 0 and has leaf values -1 (left) and 1 (right).
Ensemble(T, d) ==
    [bound |-> TRUE, n_features |-> d,
     trees |-> [t \in 1..T |-> [feature |-> ((t - 1) % d) + 1, threshold |-> 0,
                                left |-> 0 - 1, right |-> 1]]]

\* what the collaborators of a fit call do, <<T, failure>>: super().fit trains T
\* trees and nothing raises, or super().fit raises, or tree_to_numpy raises
FitEnvs ==
    {<<T, "none">> : T \in 1..MaxTrees}
    \cup {<<1, "native_fit">>, <<1, "tree_to_numpy">>}

UnboundList == [bound |-> FALSE, list |-> <<>>]
UnboundModel == [bound |-> FALSE, trees |-> <<>>, n_features |-> 0]

\* the instance as one record, for the operators below
Self == [n_bits |-> n_bits, q_x_byfeatures |-> q_x_byfeatures,
         tensor_tree_predict |-> tensor_tree_predict, q_y |-> q_y]

\* --------------------------------------------------- tree_to_numpy
\* the leaf a tree selects for sample i of the codes qX
LeafOf(tree, qX, i) ==
    IF At2(qX, i, tree.feature) <= tree.threshold THEN tree.left ELSE tree.right

\* the per-tree outputs of a tree list on qX: shape (n_trees, n_samples, 1)
TreeOutputs(trees, qX) ==
    NDArray(<<Len(trees), NRows(qX), 1>>,
            [c \in 1..(Len(trees) * NRows(qX)) |->
                LeafOf(trees[((c - 1) \div NRows(qX)) + 1], qX, ((c - 1) % NRows(qX)) + 1)])

\* tree_to_numpy(model, qX, framework, output_n_bits) -> (predictor, q_y):
\* the output quantizer is fitted on the raw outputs for the training codes and
\* the predictor's leaves are the codes of the leaf values under it
tree_to_numpy(model, qX, framework, output_n_bits) ==
    LET qy == QuantizedArray(output_n_bits, TreeOutputs(model.trees, qX))
    IN [predictor |->
            [bound |-> TRUE, n_features |-> model.n_features,
             trees |-> [t \in 1..Len(model.trees) |->
                          [model.trees[t] EXCEPT
                              !.left = QuantCode(qy, model.trees[t].left),
                              !.right = QuantCode(qy, model.trees[t].right)]]],
        q_y |-> qy]

\* --------------------------------------------------------- __init__
\* a constructor that has lost its base_score check
base_score_supported_any(bs) == bs \in BaseScores

\* assert_true(base_score in [0.5, None], ...)
base_score_supported(bs) == bs \in {"0.5", "None"}

\* ------------------------------------------------------------- fit
\* lines 169-176: one QuantizedArray per column of X, in a fresh list
quantize_features(nb, X) == [i \in 1..NCols(X) |-> QuantizedArray(nb, Column(X, i))]

\* qX[:, i] = q_x_.qvalues
codes_of(qs, X) ==
    NDArray(X.shape, [c \in 1..Len(X.data) |->
        qs[((c - 1) % NCols(X)) + 1].qvalues.data[((c - 1) \div NCols(X)) + 1]])

\* a fit that appends to the quantizer list it finds (line 170 dropped)
fit_append(self, X, T, failure) ==
    LET qs == quantize_features(self.n_bits, X)
        qX == codes_of(qs, X)
        s1 == [self EXCEPT !.q_x_byfeatures =
                  [bound |-> TRUE, list |-> self.q_x_byfeatures.list \o qs]]
        tt == tree_to_numpy(Ensemble(T, NCols(X)), qX, "xgboost", self.n_bits)
        native == [call |-> "native_fit", qX |-> qX, framework |-> "", n_bits |-> 0]
        tensor == [call |-> "tree_to_numpy", qX |-> qX, framework |-> "xgboost",
                   n_bits |-> self.n_bits]
    IN IF failure = "native_fit"
       THEN [outcome |-> "NativeFitError", self |-> s1, trace |-> <<native>>]
       ELSE IF failure = "tree_to_numpy"
       THEN [outcome |-> "TensorizerError", self |-> s1, trace |-> <<native, tensor>>]
       ELSE [outcome |-> "ok",
             self |-> [s1 EXCEPT !.tensor_tree_predict = tt.predictor, !.q_y = tt.q_y],
             trace |-> <<native, tensor>>]

\* fit(self, X, y): T is the number of trees super().fit trains when it does
\* not raise, failure the collaborator that raises.  Returns the outcome, the
\* instance and the collaborators called with their arguments.
fit(self, X, T, failure) ==
    LET qs == quantize_features(self.n_bits, X)
        qX == codes_of(qs, X)
        s1 == [self EXCEPT !.q_x_byfeatures = [bound |-> TRUE, list |-> qs]]
        tt == tree_to_numpy(Ensemble(T, NCols(X)), qX, "xgboost", self.n_bits)
        native == [call |-> "native_fit", qX |-> qX, framework |-> "", n_bits |-> 0]
        tensor == [call |-> "tree_to_numpy", qX |-> qX, framework |-> "xgboost",
                   n_bits |-> self.n_bits]
    IN IF failure = "native_fit"
       THEN [outcome |-> "NativeFitError", self |-> s1, trace |-> <<native>>]
       ELSE IF failure = "tree_to_numpy"
       THEN [outcome |-> "TensorizerError", self |-> s1, trace |-> <<native, tensor>>]
       ELSE [outcome |-> "ok",
             self |-> [s1 EXCEPT !.tensor_tree_predict = tt.predictor, !.q_y = tt.q_y],
             trace |-> <<native, tensor>>]

\* --------------------------------------------------- predict_proba
\* the argument checks without the execute_in_fhe assertion (line 221 dropped)
check_arguments_no_fhe(nargs, nkwargs, execute_in_fhe) ==
    IF nargs # 0 THEN "UnsupportedOperationError"
    ELSE IF nkwargs # 0 THEN "UnsupportedOperationError"
    ELSE "ok"

\* the argument checks without the kwargs assertion (line 220 dropped)
check_arguments_no_kwargs(nargs, nkwargs, execute_in_fhe) ==
    IF nargs # 0 THEN "UnsupportedOperationError"
    ELSE IF execute_in_fhe THEN "UnsupportedOperationError"
    ELSE "ok"

\* lines 219-221: the three assert_true of predict_proba
check_arguments(nargs, nkwargs, execute_in_fhe) ==
    IF nargs # 0 THEN "UnsupportedOperationError"
    ELSE IF nkwargs # 0 THEN "UnsupportedOperationError"
    ELSE IF execute_in_fhe THEN "UnsupportedOperationError"
    ELSE "ok"

\* quantize_input(X): zeros like X, column i replaced by the codes of X[:, i]
\* under the i-th fitted quantizer
quantize_input(qx, X) ==
    NDArray(X.shape, [c \in 1..Len(X.data) |->
        LET j == ((c - 1) % NCols(X)) + 1
            i == ((c - 1) \div NCols(X)) + 1
        IN IF j <= Len(qx.list)
           THEN update_values(qx.list[j], Column(X, j)).data[i]
           ELSE 0])

\* why line 223 raises, or "ok"
quantize_input_error(qx, X) ==
    IF ~qx.bound THEN "InvalidStateError"
    ELSE IF Len(qx.list) > NCols(X) THEN "IndexError"
    ELSE "ok"

\* why line 224 raises, or "ok"
tensor_predict_error(predictor, qX) ==
    IF ~predictor.bound THEN "InvalidStateError"
    ELSE IF predictor.n_features > NCols(qX) THEN "IndexError"
    ELSE "ok"

\* self._tensor_tree_predict(qX)[0]
tensor_predict(predictor, qX) == TreeOutputs(predictor.trees, qX)

\* lines 226-232 on the dequantized outputs
probabilities(y_preds) ==
    LET sq == squeeze(y_preds)
    IN IF ~(ndim(sq) > 1)
       THEN [outcome |-> "AssertionError", result |-> EmptyArray]
       ELSE LET p == MapArray(sum_axis1(transpose(sq)), sigmoid)
            IN [outcome |-> "ok",
                result |-> concatenate_axis1(MapArray(p, LAMBDA v : One - v), p)]

Raise(error, qy) == [outcome |-> error, result |-> EmptyArray, q_y |-> qy]

\* a predict_proba that answers 0.5 / 0.5 when nothing is fitted
predict_proba_default(self, X, nargs, nkwargs, execute_in_fhe) ==
    LET checked == check_arguments(nargs, nkwargs, execute_in_fhe)
        e223 == quantize_input_error(self.q_x_byfeatures, X)
        qX == quantize_input(self.q_x_byfeatures, X)
        e224 == tensor_predict_error(self.tensor_tree_predict, qX)
        qy == update_quantized_values(self.q_y, tensor_predict(self.tensor_tree_predict, qX))
        out == probabilities(qy.values)
    IN IF checked # "ok" THEN Raise(checked, self.q_y)
       ELSE IF ~self.tensor_tree_predict.bound
       THEN [outcome |-> "ok", q_y |-> self.q_y,
             result |-> NDArray(<<NRows(X), 2>>, [c \in 1..(2 * NRows(X)) |-> sigmoid(0)])]
       ELSE IF e223 # "ok" THEN Raise(e223, self.q_y)
       ELSE IF e224 # "ok" THEN Raise(e224, self.q_y)
       ELSE [outcome |-> out.outcome, result |-> out.result, q_y |-> qy]

\* a predict_proba that reads the output quantizer's values before it updates them
predict_proba_stale(self, X, nargs, nkwargs, execute_in_fhe) ==
    LET checked == check_arguments(nargs, nkwargs, execute_in_fhe)
        e223 == quantize_input_error(self.q_x_byfeatures, X)
        qX == quantize_input(self.q_x_byfeatures, X)
        e224 == tensor_predict_error(self.tensor_tree_predict, qX)
        qy == update_quantized_values(self.q_y, tensor_predict(self.tensor_tree_predict, qX))
        out == probabilities(self.q_y.values)
    IN IF checked # "ok" THEN Raise(checked, self.q_y)
       ELSE IF e223 # "ok" THEN Raise(e223, self.q_y)
       ELSE IF e224 # "ok" THEN Raise(e224, self.q_y)
       ELSE IF ~self.q_y.bound THEN Raise("InvalidStateError", self.q_y)
       ELSE [outcome |-> out.outcome, result |-> out.result, q_y |-> qy]

\* predict_proba(self, X, *args, execute_in_fhe, **kwargs): the outcome, the
\* array returned and self.q_y after the call
predict_proba(self, X, nargs, nkwargs, execute_in_fhe) ==
    LET checked == check_arguments(nargs, nkwargs, execute_in_fhe)
        e223 == quantize_input_error(self.q_x_byfeatures, X)
        qX == quantize_input(self.q_x_byfeatures, X)
        e224 == tensor_predict_error(self.tensor_tree_predict, qX)
        qy == update_quantized_values(self.q_y, tensor_predict(self.tensor_tree_predict, qX))
        out == probabilities(qy.values)
    IN IF checked # "ok" THEN Raise(checked, self.q_y)
       ELSE IF e223 # "ok" THEN Raise(e223, self.q_y)
       ELSE IF e224 # "ok" THEN Raise(e224, self.q_y)
       ELSE IF ~self.q_y.bound THEN Raise("InvalidStateError", self.q_y)
       ELSE [outcome |-> out.outcome, result |-> out.result, q_y |-> qy]

\* predict(self, X, *args, execute_in_fhe, **kwargs)
predict(self, X, nargs, nkwargs, execute_in_fhe) ==
    LET r == predict_proba(self, X, nargs, nkwargs, execute_in_fhe)
    IN IF r.outcome # "ok" THEN r
       ELSE [r EXCEPT !.result = argmax_axis1(r.result)]

\* ------------------------------------------------------------- state
NoCall == [nargs |-> 0, nkwargs |-> 0, execute_in_fhe |-> FALSE, base_score |-> "unset",
           fitted_before |-> FALSE, columns_before |-> 0]
NoMemo == [set |-> FALSE, X |-> EmptyArray, outcome |-> "none", result |-> EmptyArray,
           other |-> FALSE]

Init ==
    /\ constructed = FALSE
    /\ base_score = "unset"
    /\ n_bits = 0
    /\ q_x_byfeatures = UnboundList
    /\ tensor_tree_predict = UnboundModel
    /\ q_y = UnboundQ
    /\ lastOp = "none"
    /\ lastCall = NoCall
    /\ lastX = EmptyArray
    /\ lastOutcome = "none"
    /\ lastResult = EmptyArray
    /\ lastTrace = <<>>
    /\ memo = NoMemo
    /\ pc = [t \in Threads |-> "idle"]
    /\ tX = [t \in Threads |-> EmptyArray]
    /\ tqX = [t \in Threads |-> EmptyArray]
    /\ ty = [t \in Threads |-> EmptyArray]
    /\ tOut = [t \in Threads |-> [outcome |-> "none", result |-> EmptyArray]]

\* the Fitted state of the facade: a fit has bound the predictor
Fitted == tensor_tree_predict.bound

\* XGBClassifier(n_bits=nb, base_score=bs): raises before an instance exists, or
\* returns an instance on which nothing is fitted
CallInit(nb, bs) ==
    /\ ~constructed
    /\ lastOp' = "__init__"
    /\ lastCall' = [NoCall EXCEPT !.base_score = bs]
    /\ lastX' = EmptyArray
    /\ lastResult' = EmptyArray
    /\ lastTrace' = <<>>
    /\ IF base_score_supported(bs)
       THEN /\ constructed' = TRUE
            /\ base_score' = bs
            /\ n_bits' = nb
            /\ lastOutcome' = "ok"
       ELSE /\ lastOutcome' = "ConfigurationError"
            /\ UNCHANGED <<constructed, base_score, n_bits>>
    /\ UNCHANGED <<q_x_byfeatures, tensor_tree_predict, q_y>>

\* self.fit(X, y)
CallFit(X, T, failure) ==
    /\ constructed
    /\ LET r == fit(Self, X, T, failure)
       IN /\ q_x_byfeatures' = r.self.q_x_byfeatures
          /\ tensor_tree_predict' = r.self.tensor_tree_predict
          /\ q_y' = r.self.q_y
          /\ lastOutcome' = r.outcome
          /\ lastTrace' = r.trace
    /\ lastOp' = "fit"
    /\ lastCall' = [NoCall EXCEPT !.fitted_before = Fitted,
                                  !.columns_before = Len(q_x_byfeatures.list)]
    /\ lastX' = X
    /\ lastResult' = EmptyArray
    /\ UNCHANGED <<constructed, base_score, n_bits>>

\* the X a rejected call leaves no trace of
SeenX(X, nargs, nkwargs, fhe) ==
    IF check_arguments(nargs, nkwargs, fhe) = "ok" THEN X ELSE EmptyArray

\* self.predict_proba(X, *args, execute_in_fhe=fhe, **kwargs)
CallPredictProba(X, nargs, nkwargs, fhe) ==
    /\ constructed
    /\ LET r == predict_proba(Self, X, nargs, nkwargs, fhe)
       IN /\ q_y' = r.q_y
          /\ lastOutcome' = r.outcome
          /\ lastResult' = r.result
    /\ lastOp' = "predict_proba"
    /\ lastCall' = [NoCall EXCEPT !.nargs = nargs, !.nkwargs = nkwargs,
                                  !.execute_in_fhe = fhe]
    /\ lastX' = SeenX(X, nargs, nkwargs, fhe)
    /\ lastTrace' = <<>>
    /\ UNCHANGED <<constructed, base_score, n_bits, q_x_byfeatures,
                   tensor_tree_predict>>

\* self.predict(X, *args, execute_in_fhe=fhe, **kwargs)
CallPredict(X, nargs, nkwargs, fhe) ==
    /\ constructed
    /\ LET r == predict(Self, X, nargs, nkwargs, fhe)
       IN /\ q_y' = r.q_y
          /\ lastOutcome' = r.outcome
          /\ lastResult' = r.result
    /\ lastOp' = "predict"
    /\ lastCall' = [NoCall EXCEPT !.nargs = nargs, !.nkwargs = nkwargs,
                                  !.execute_in_fhe = fhe]
    /\ lastX' = SeenX(X, nargs, nkwargs, fhe)
    /\ lastTrace' = <<>>
    /\ UNCHANGED <<constructed, base_score, n_bits, q_x_byfeatures,
                   tensor_tree_predict>>

\* the X of a predict call has the column count of the training data of the last
\* fit that completed or, when none has, of the fit that was attempted
ValidBatches ==
    IF Fitted THEN {X \in Batches : NCols(X) = tensor_tree_predict.n_features}
    ELSE IF q_x_byfeatures.bound
    THEN {X \in Batches : NCols(X) = Len(q_x_byfeatures.list)}
    ELSE Batches

\* how a predict call is made, <<X, len(args), len(kwargs), execute_in_fhe>>: with
\* valid arguments, or with an extra positional argument, an extra keyword
\* argument or execute_in_fhe=True
PredictCalls ==
    {<<X, 0, 0, FALSE>> : X \in ValidBatches}
    \cup {<<Batch(1, 1, 0), 1, 0, FALSE>>, <<Batch(1, 1, 0), 0, 1, FALSE>>,
          <<Batch(1, 1, 0), 0, 0, TRUE>>}

\* one call at a time, each run to completion
Next ==
    \/ \E bs \in BaseScores :
          CallInit(DefaultNBits, bs) /\ UNCHANGED memo /\ UNCHANGED threadVars
    \/ \E X \in TrainBatches, e \in FitEnvs :
          CallFit(X, e[1], e[2]) /\ UNCHANGED memo /\ UNCHANGED threadVars
    \/ \E c \in PredictCalls :
          CallPredictProba(c[1], c[2], c[3], c[4]) /\ UNCHANGED memo /\ UNCHANGED threadVars
    \/ \E c \in PredictCalls :
          CallPredict(c[1], c[2], c[3], c[4]) /\ UNCHANGED memo /\ UNCHANGED threadVars

Spec == Init /\ [][Next]_vars

\* ------------------------------------------- calls kept for comparison
\* memo after a predict_proba call on a Fitted instance: the call is kept (keep), or
\* it is compared with the one kept; other records that a call on another X ran
\* in between.  Any fit forgets the kept call.
MemoAfterProba(keep) ==
    IF ~Fitted THEN memo
    ELSE IF ~memo.set
    THEN IF keep
         THEN [set |-> TRUE, X |-> lastX', outcome |-> lastOutcome',
               result |-> lastResult', other |-> FALSE]
         ELSE memo
    ELSE IF lastX' # memo.X THEN [memo EXCEPT !.other = TRUE] ELSE memo

MemoAfterPredict ==
    IF memo.set /\ lastX' # memo.X THEN [memo EXCEPT !.other = TRUE] ELSE memo

\* the sequential program, with one earlier predict_proba call remembered
NextMemo ==
    \/ \E bs \in BaseScores :
          CallInit(DefaultNBits, bs) /\ UNCHANGED memo /\ UNCHANGED threadVars
    \/ \E X \in TrainBatches, e \in FitEnvs :
          CallFit(X, e[1], e[2]) /\ memo' = NoMemo /\ UNCHANGED threadVars
    \/ \E X \in ValidBatches, keep \in BOOLEAN :
          /\ CallPredictProba(X, 0, 0, FALSE)
          /\ memo' = MemoAfterProba(keep)
          /\ UNCHANGED threadVars
    \/ \E X \in ValidBatches :
          CallPredict(X, 0, 0, FALSE) /\ memo' = MemoAfterPredict /\ UNCHANGED threadVars

SpecMemo == Init /\ [][NextMemo]_vars

\* ---------------------------------------- concurrent predict_proba calls
\* Thread t calls predict_proba(X) with valid arguments on the Fitted instance and
\* runs it line by line; update_quantized_values is two steps on the shared q_y.
TCall(t, X) ==
    /\ pc[t] = "idle"
    /\ Fitted
    /\ NCols(X) = tensor_tree_predict.n_features
    /\ check_arguments(0, 0, FALSE) = "ok"
    /\ pc' = [pc EXCEPT ![t] = "L223"]
    /\ tX' = [tX EXCEPT ![t] = X]
    /\ UNCHANGED <<tqX, ty, tOut, q_y>>

\* line 223: qX = self.quantize_input(X)
T223(t) ==
    /\ pc[t] = "L223"
    /\ IF quantize_input_error(q_x_byfeatures, tX[t]) # "ok"
       THEN /\ tOut' = [tOut EXCEPT ![t] =
                          [outcome |-> quantize_input_error(q_x_byfeatures, tX[t]),
                           result |-> EmptyArray]]
            /\ pc' = [pc EXCEPT ![t] = "done"]
            /\ UNCHANGED tqX
       ELSE /\ tqX' = [tqX EXCEPT ![t] = quantize_input(q_x_byfeatures, tX[t])]
            /\ pc' = [pc EXCEPT ![t] = "L224"]
            /\ UNCHANGED tOut
    /\ UNCHANGED <<tX, ty, q_y>>

\* line 224: y_preds = self._tensor_tree_predict(qX)[0]
T224(t) ==
    /\ pc[t] = "L224"
    /\ tensor_predict_error(tensor_tree_predict, tqX[t]) = "ok"
    /\ ty' = [ty EXCEPT ![t] = tensor_predict(tensor_tree_predict, tqX[t])]
    /\ pc' = [pc EXCEPT ![t] = "L225"]
    /\ UNCHANGED <<tX, tqX, tOut, q_y>>

\* line 225, first half of update_quantized_values: self.qvalues = qvalues
T225store(t) ==
    /\ pc[t] = "L225"
    /\ q_y' = store_qvalues(q_y, ty[t])
    /\ pc' = [pc EXCEPT ![t] = "L225dequant"]
    /\ UNCHANGED <<tX, tqX, ty, tOut>>

\* line 225, second half: self.values = self.dequant(); return self.values
T225dequant(t) ==
    /\ pc[t] = "L225dequant"
    /\ q_y' = store_values(q_y)
    /\ ty' = [ty EXCEPT ![t] = store_values(q_y).values]
    /\ pc' = [pc EXCEPT ![t] = "L226"]
    /\ UNCHANGED <<tX, tqX, tOut>>

\* lines 226-232: squeeze, assert, transpose, sum, sigmoid, concatenate, return
T226(t) ==
    /\ pc[t] = "L226"
    /\ tOut' = [tOut EXCEPT ![t] = probabilities(ty[t])]
    /\ pc' = [pc EXCEPT ![t] = "done"]
    /\ UNCHANGED <<tX, tqX, ty, q_y>>

AllIdle == \A t \in Threads : pc[t] = "idle"

\* fitting completes first; then the threads call predict_proba, no fit in flight
NextConc ==
    \/ \E bs \in BaseScores :
          CallInit(DefaultNBits, bs) /\ UNCHANGED memo /\ UNCHANGED threadVars
    \/ \E X \in TrainBatches, e \in FitEnvs :
          /\ AllIdle
          /\ ~Fitted
          /\ CallFit(X, e[1], e[2])
          /\ UNCHANGED memo
          /\ UNCHANGED threadVars
    \/ \E t \in Threads, X \in Batches :
          TCall(t, X) /\ UNCHANGED <<constructed, base_score, n_bits, q_x_byfeatures,
                                     tensor_tree_predict, memo>> /\ UNCHANGED obsVars
    \/ \E t \in Threads :
          T223(t) /\ UNCHANGED <<constructed, base_score, n_bits, q_x_byfeatures,
                                 tensor_tree_predict, memo>> /\ UNCHANGED obsVars
    \/ \E t \in Threads :
          T224(t) /\ UNCHANGED <<constructed, base_score, n_bits, q_x_byfeatures,
                                 tensor_tree_predict, memo>> /\ UNCHANGED obsVars
    \/ \E t \in Threads :
          T225store(t) /\ UNCHANGED <<constructed, base_score, n_bits, q_x_byfeatures,
                                      tensor_tree_predict, memo>> /\ UNCHANGED obsVars
    \/ \E t \in Threads :
          T225dequant(t) /\ UNCHANGED <<constructed, base_score, n_bits, q_x_byfeatures,
                                        tensor_tree_predict, memo>> /\ UNCHANGED obsVars
    \/ \E t \in Threads :
          T226(t) /\ UNCHANGED <<constructed, base_score, n_bits, q_x_byfeatures,
                                 tensor_tree_predict, memo>> /\ UNCHANGED obsVars

SpecConc == Init /\ [][NextConc]_vars

\* ============================================================ properties
PredictOps == {"predict", "predict_proba"}
ValidCall == lastCall.nargs = 0 /\ lastCall.nkwargs = 0 /\ ~lastCall.execute_in_fhe

\* C1: a fit call that fails leaves the fitted state as it was: on a Fitted
\* instance the per-feature quantizers, the predictor and the output quantizer are
\* those of the previous successful fit, and an Unfitted instance stays Unfitted.
C1_FailedFitKeepsFittedState ==
    [][(lastOp' = "fit" /\ lastOutcome' # "ok")
         => /\ Fitted' = Fitted
            /\ Fitted => /\ q_x_byfeatures' = q_x_byfeatures
                         /\ tensor_tree_predict' = tensor_tree_predict
                         /\ q_y' = q_y]_vars

C4_FheRaisesUnsupported ==
    (lastOp \in PredictOps /\ lastCall.execute_in_fhe)
        => (lastOutcome = "UnsupportedOperationError" /\ lastResult = EmptyArray)

\* predict_proba(X, execute_in_fhe=True) has just run on an Unfitted instance
C4_Witness ==
    /\ lastOp = "predict_proba" /\ lastCall.execute_in_fhe /\ constructed /\ ~Fitted
    /\ lastOutcome = "UnsupportedOperationError"

\* C5: a predict_proba or predict call with an extra positional or keyword
\* argument raises UnsupportedOperationError, returns nothing and has not touched
\* the output quantizer.
C5_ExtraArgumentsRaiseUnsupported ==
    [][(lastOp' \in PredictOps /\ (lastCall'.nargs # 0 \/ lastCall'.nkwargs # 0))
         => /\ lastOutcome' = "UnsupportedOperationError"
            /\ lastResult' = EmptyArray
            /\ q_y' = q_y]_vars

\* predict(X, extra=...) has just been rejected on a Fitted instance
C5_Witness ==
    /\ lastOp = "predict" /\ lastCall.nkwargs # 0 /\ Fitted
    /\ lastOutcome = "UnsupportedOperationError"

\* C6: on a Fitted instance a predict_proba call on the X of an earlier
\* predict_proba call, with no fit in between, has the outcome and returns the
\* array of the earlier call.
C6_PredictProbaIdempotent ==
    (memo.set /\ lastOp = "predict_proba" /\ lastX = memo.X)
        => (lastOutcome = memo.outcome /\ lastResult = memo.result)

\* predict_proba has returned for the kept X again, after a call on another X
C6_Witness ==
    /\ memo.set /\ memo.other
    /\ lastOp = "predict_proba" /\ lastX = memo.X
    /\ lastOutcome = "ok" /\ lastResult # EmptyArray

\* what predict_proba(X) returns when it runs alone on the instance
Alone(X) ==
    LET r == predict_proba(Self, X, 0, 0, FALSE)
    IN [outcome |-> r.outcome, result |-> r.result]

\* every predict_proba call made so far returns an array when it runs alone
CallsReturnAlone ==
    \A t \in Threads : pc[t] # "idle" => Alone(tX[t]).outcome = "ok"

\* C7: under every interleaving of two predict_proba calls on a Fitted instance,
\* each call returns what it would return if run alone (stated for calls that
\* all return an array when run alone).
C7_ConcurrentCallsReturnAloneResult ==
    CallsReturnAlone
        => \A t \in Threads : pc[t] = "done" => tOut[t] = Alone(tX[t])

\* the probability of class 1 for sample i of X: the sigmoid of the sum of the
\* dequantized per-tree outputs
ExpectedP(X, i) ==
    LET qX == quantize_input(q_x_byfeatures, X)
    IN sigmoid(SeqSum([t \in 1..Len(tensor_tree_predict.trees) |->
                         DequantCode(q_y, LeafOf(tensor_tree_predict.trees[t], qX, i))]))

\* the instance is Fitted with one quantizer per column the predictor reads
FittedForColumns ==
    Fitted /\ Len(q_x_byfeatures.list) = tensor_tree_predict.n_features

\* C8: on a Fitted instance predict_proba returns, for every batch of n >= 1
\* samples and every ensemble of one or more trees, n rows [1 - p, p], and predict
\* returns the arg-max column of each row.
C8_ProbabilitiesForEveryBatch ==
    (lastOp \in PredictOps /\ ValidCall /\ FittedForColumns)
        => /\ lastOutcome = "ok"
           /\ lastOp = "predict_proba"
                => /\ lastResult.shape = <<NRows(lastX), 2>>
                   /\ \A i \in 1..NRows(lastX) :
                         /\ At2(lastResult, i, 2) = ExpectedP(lastX, i)
                         /\ At2(lastResult, i, 1) = One - ExpectedP(lastX, i)
           /\ lastOp = "predict"
                => /\ lastResult.shape = <<NRows(lastX)>>
                   /\ \A i \in 1..NRows(lastX) :
                         lastResult.data[i] =
                            IF ExpectedP(lastX, i) > One - ExpectedP(lastX, i) THEN 1 ELSE 0

\* the fitted state a fit of lastX alone produces, given the trees it trained
FreshFit ==
    LET qs == [j \in 1..NCols(lastX) |-> QuantizedArray(n_bits, Column(lastX, j))]
    IN [qs |-> qs,
        tt |-> tree_to_numpy(Ensemble(Len(tensor_tree_predict.trees), NCols(lastX)),
                             codes_of(qs, lastX), "xgboost", n_bits)]

\* C9: after a successful fit, from Unfitted or from Fitted, the fitted state is
\* that of this fit alone: one quantizer per column of its X, and the predictor
\* and the output quantizer tree_to_numpy produced, in its one call after the
\* native fit, from the codes the native fit was given and output_n_bits = n_bits.
C9_FitReplacesAllFittedState ==
    (lastOp = "fit" /\ lastOutcome = "ok")
        => /\ Fitted
           /\ q_x_byfeatures.bound
           /\ Len(q_x_byfeatures.list) = NCols(lastX)
           /\ q_x_byfeatures.list = FreshFit.qs
           /\ Len(lastTrace) = 2
           /\ lastTrace[1].call = "native_fit"
           /\ lastTrace[2].call = "tree_to_numpy"
           /\ lastTrace[1].qX = codes_of(FreshFit.qs, lastX)
           /\ lastTrace[2].qX = lastTrace[1].qX
           /\ lastTrace[2].framework = "xgboost"
           /\ lastTrace[2].n_bits = n_bits
           /\ q_y.n_bits = n_bits
           /\ tensor_tree_predict = FreshFit.tt.predictor
           /\ tensor_tree_predict.n_features = NCols(lastX)
           /\ q_y = FreshFit.tt.q_y

\* a fit has just succeeded on a Fitted instance whose quantizer list was longer
\* than its X is wide
C9_Witness ==
    /\ lastOp = "fit" /\ lastOutcome = "ok"
    /\ lastCall.fitted_before /\ lastCall.columns_before > NCols(lastX)

\* C10: a predict or predict_proba call, whether it returns or raises, leaves the
\* per-feature quantizers, the predictor and the output quantizer as they were,
\* and the instance Fitted or Unfitted as it was.
C10_PredictIsReadOnly ==
    [][(lastOp' \in PredictOps)
         => /\ q_x_byfeatures' = q_x_byfeatures
            /\ tensor_tree_predict' = tensor_tree_predict
            /\ q_y' = q_y
            /\ Fitted' = Fitted]_vars

====
